---------------------------- MODULE Spec2Model ----------------------------
(***************************************************************************)
(* The Deadline plugin's view (src/main.js, the requestAnimationFrame      *)
(* variant, lines 857-1474): the Pomodoro timer of SimpleWorkingView, the  *)
(* browser's pending animation frames and setTimeout callbacks, and the    *)
(* wall clock; its calendar, daily documents and tasks; two instances of   *)
(* the view side by side; the plugin's activateView with the host's        *)
(* workspace; and the timer of the setInterval variant (lines 1-856),      *)
(* whose definitions carry the prefix v1_.                                 *)
(*                                                                         *)
(* Time.  The code never uses a timestamp except through its distance to   *)
(* Date.now() (timerEndTime - now, a timeout's delay), so every timestamp  *)
(* of the state is kept relative to the current instant: Date.now() reads  *)
(* `now`, and the passage of d milliseconds moves every stored timestamp   *)
(* d milliseconds into the past (AdvanceClock).                            *)
(*                                                                         *)
(* JavaScript numbers.  A field that holds a number holds an integer or    *)
(* NaN; timerEndTime may also be null.  NaN and Null are two reserved      *)
(* integers outside the range of every computed value, and the Js*         *)
(* operators compute on them as JavaScript does.  The frame handle         *)
(* timerAnimationFrame is tested for truthiness only, so null is 0 there.  *)
(***************************************************************************)
EXTENDS Integers, Sequences, FiniteSets, TLC

VARIABLES
    workTime,             \* this.workTime (seconds)
    breakTime,            \* this.breakTime (seconds)
    timeLeft,             \* this.timeLeft (seconds)
    isWorkSession,        \* this.isWorkSession
    timerRunning,         \* this.timerRunning
    timerEndTime,         \* this.timerEndTime (ms, relative to now; or Null)
    timerAnimationFrame,  \* this.timerAnimationFrame (handle; 0 is null)
    frames,               \* handles of the pending requestAnimationFrame callbacks
    restartTimers,        \* due times of the pending setTimeout(startTimer, 2000) callbacks, in order
    startBtnText,         \* timerElements.startBtn.textContent
    timeText,             \* timerElements.time.textContent, as <<minutes, seconds>>
    statusText,           \* timerElements.status.textContent
    progressWidth,        \* timerElements.progressBar.style.width, a fraction <<n, d>> of 100%
    progressBackground,   \* timerElements.progressBar.style.background
    settingsDisplay,      \* timerElements.settingsEl.style.display
    infoText,             \* timerElements.infoEl.textContent, as <<work text, break text>>
    cue,                  \* what playBeepSound did in the handler that ran last
    currentDate,          \* this.currentDate, as <<year, month (0-based), day of month>>
    today,                \* the local date of the wall clock, as <<year, month, day>>
    calendar,             \* what renderCalendar put into the calendar container
    midnights,            \* history: the midnights that passed since the view was opened
    lastNav,              \* history: the navigation button clicked last
    navFrom,              \* history: <<year, month>> displayed before that click
    files,                \* the names of the documents in the vault
    calls,                \* the createDailyFile calls waiting at an await, oldest first
    opened,               \* the document the workspace leaf shows (<<>>: none of the view's)
    successMessages,      \* the p.success-message elements of the section, oldest first
    errorMessages,        \* the p.error-message elements of the section, as <<file name, error.message>>
    tasks,                \* this.tasks, each task as [id, text, completed]
    taskInput,            \* taskElements.input.value, as a sequence of characters
    clock,                \* Date.now() as addTask reads it, in ms since the view was opened
    views,                \* two open instances of the view: of each its timer, tasks, task input and currentDate
    earlier,              \* the view of the setInterval variant: its timer, intervals and setTimeout callbacks
    workspace,            \* app.workspace: its leaves and the activateView calls waiting at their await
    closed,               \* onClose() has run
    userGone,             \* the user has stopped interacting with the view
    lastOp,               \* history: the last timer operation that ran
    pauseAge              \* history: whether Leap ms went by in one piece during the last pause

view == <<workTime, breakTime, timeLeft, isWorkSession, timerRunning, timerEndTime,
          timerAnimationFrame, frames, restartTimers, startBtnText, timeText,
          statusText, progressWidth, progressBackground, settingsDisplay, infoText>>

\* the calendar
calendarVars == <<currentDate, today, calendar, midnights, lastNav, navFrom>>

\* what no handler of the timer reads or assigns
\* the daily documents
documentVars == <<files, calls, opened, successMessages, errorMessages>>

\* the tasks
taskVars == <<tasks, taskInput, clock>>

\* the instances followed beside the view
otherVars == <<views, earlier, workspace>>

outsideTimer == <<calendarVars, documentVars, taskVars, otherVars>>

timerVars == <<view, cue, closed, userGone, lastOp, pauseAge>>

vars == <<timerVars, outsideTimer>>

-----------------------------------------------------------------------------
(* Bounds of the model *)

\* Lateness (ms) beyond which a passed timestamp is no longer told apart, and
\* within which the browser runs a setTimeout callback that is due.
MaxLate == 500

\* The wall clock moves by Step ms while a deadline is at most Horizon ms
\* ahead, by Leap ms while none is more than MaxAhead ms ahead, and from
\* anywhere to Horizon ms before the next deadline.
Step == 250
Horizon == 1000
Leap == 58000
MaxAhead == 120000

\* What the two settings inputs (work, break) may hold when Save is clicked.
InputTexts == {<<"1", "1">>, <<"2", "1">>, <<"", "1">>}

\* The calendar is opened on any day of the year after FirstYear and is
\* navigated within the years FirstYear..LastYear; the view stays open over
\* at most MaxMidnights midnights.
FirstYear == 2023
LastYear == 2025
MaxMidnights == 1

\* The day cells that are clicked, and how many createDailyFile calls may be
\* waiting at an await at the same time.
ClickDays == {1, 2}
MaxPending == 2

\* How a call into the vault or the workspace may end.
Outcomes == {"ok", "fail"}

-----------------------------------------------------------------------------
(* JavaScript values *)

NaN == 0 - 2000000000
Null == 0 - 2000000001

IsNum(x) == x # NaN /\ x # Null

\* null converts to 0 in arithmetic
ToNumber(x) == IF x = Null THEN 0 ELSE x

JsAdd(a, b) == IF ToNumber(a) = NaN \/ ToNumber(b) = NaN THEN NaN ELSE ToNumber(a) + ToNumber(b)
JsSub(a, b) == IF ToNumber(a) = NaN \/ ToNumber(b) = NaN THEN NaN ELSE ToNumber(a) - ToNumber(b)
JsMul(a, b) == IF ToNumber(a) = NaN \/ ToNumber(b) = NaN THEN NaN ELSE ToNumber(a) * ToNumber(b)

\* a <= b: false when either side is NaN
JsLeq(a, b) == ToNumber(a) # NaN /\ ToNumber(b) # NaN /\ ToNumber(a) <= ToNumber(b)

\* a !== b on numbers: NaN differs from everything, itself included
JsStrictNeq(a, b) == a = NaN \/ b = NaN \/ a # b

\* Math.round(ms / 1000): to the nearest integer, halves towards +Infinity
RoundSeconds(ms) == IF ms = NaN THEN NaN ELSE (ms + 500) \div 1000

\* Math.max(0, x)
Max0(x) == IF x = NaN THEN NaN ELSE IF x < 0 THEN 0 ELSE x

\* parseInt(text, 10) of what a number input can hold
parseInt(text) ==
    CASE text = ""   -> NaN
      [] text = "0"  -> 0
      [] text = "1"  -> 1
      [] text = "2"  -> 2
      [] text = "5"  -> 5
      [] text = "40" -> 40
      [] OTHER       -> NaN

-----------------------------------------------------------------------------
(* The browser *)

\* Date.now(), relative to the current instant
now == 0

RECURSIVE GCD(_, _)
GCD(a, b) == IF b = 0 THEN a ELSE GCD(b, a % b)

\* n/d in lowest terms
Fraction(n, d) == LET g == GCD(n, d) IN <<n \div g, d \div g>>

\* requestAnimationFrame(tick): a handle no pending frame has and the view
\* does not hold
FreshHandle(s) ==
    CHOOSE h \in 1..(Cardinality(s.frames) + 2) :
        /\ h \notin s.frames
        /\ h # s.timerAnimationFrame
        /\ \A k \in 1..(h - 1) : k \in s.frames \/ k = s.timerAnimationFrame

requestAnimationFrame(s) ==
    LET h == FreshHandle(s) IN
    [s EXCEPT !.timerAnimationFrame = h, !.frames = @ \cup {h}]

cancelAnimationFrame(s, h) == [s EXCEPT !.frames = @ \ {h}]

\* setTimeout(() => this.startTimer(), 2000)
setTimeoutRestart(s) == [s EXCEPT !.restartTimers = Append(@, now + 2000)]

-----------------------------------------------------------------------------
(* SimpleWorkingView: the timer *)

Self ==
    [workTime |-> workTime, breakTime |-> breakTime, timeLeft |-> timeLeft,
     isWorkSession |-> isWorkSession, timerRunning |-> timerRunning,
     timerEndTime |-> timerEndTime, timerAnimationFrame |-> timerAnimationFrame,
     frames |-> frames, restartTimers |-> restartTimers,
     startBtnText |-> startBtnText, timeText |-> timeText,
     statusText |-> statusText, progressWidth |-> progressWidth,
     progressBackground |-> progressBackground,
     settingsDisplay |-> settingsDisplay, infoText |-> infoText,
     cue |-> "none"]

Commit(s) ==
    \E c \in {s} :
        /\ workTime' = c.workTime
        /\ breakTime' = c.breakTime
        /\ timeLeft' = c.timeLeft
        /\ isWorkSession' = c.isWorkSession
        /\ timerRunning' = c.timerRunning
        /\ timerEndTime' = c.timerEndTime
        /\ timerAnimationFrame' = c.timerAnimationFrame
        /\ frames' = c.frames
        /\ restartTimers' = c.restartTimers
        /\ startBtnText' = c.startBtnText
        /\ timeText' = c.timeText
        /\ statusText' = c.statusText
        /\ progressWidth' = c.progressWidth
        /\ progressBackground' = c.progressBackground
        /\ settingsDisplay' = c.settingsDisplay
        /\ infoText' = c.infoText
        /\ cue' = c.cue
        /\ UNCHANGED outsideTimer

\* `${minutes}:${seconds}` of updateTimerDisplay
FormatTime(t) ==
    IF t = NaN THEN <<NaN, NaN>> ELSE <<t \div 60, t % 60>>

\* style.width = `${progress}%`: the browser keeps the old width when the
\* text is no valid width (NaN%, -Infinity%, a negative percentage)
SetWidth(old, total, left) ==
    IF total = NaN \/ left = NaN \/ total = 0 THEN old
    ELSE IF (total - left) * total < 0 THEN old
    ELSE Fraction(total - left, total)

updateTimerDisplay(s) ==
    LET sessionName == IF s.isWorkSession THEN "Work Session" ELSE "Break Time"
        totalTime == IF s.isWorkSession THEN s.workTime ELSE s.breakTime
    IN  [s EXCEPT
            !.timeText = FormatTime(s.timeLeft),
            !.statusText = <<sessionName, IF s.timerRunning THEN "Running" ELSE "Ready">>,
            !.progressWidth = SetWidth(@, totalTime, s.timeLeft),
            !.progressBackground = IF s.isWorkSession THEN "accent" ELSE "green"]

\* pauseTimer without the cancelAnimationFrame
pauseTimer_NoCancel(s) ==
    IF ~s.timerRunning THEN s
    ELSE updateTimerDisplay(
           [s EXCEPT !.timerRunning = FALSE, !.timerAnimationFrame = 0,
                     !.startBtnText = "Start"])

\* pauseTimer that recomputes the remaining time from timerEndTime
pauseTimer_BackComputed(s) ==
    IF ~s.timerRunning THEN s
    ELSE LET s1 == [s EXCEPT !.timerRunning = FALSE,
                             !.timeLeft = Max0(RoundSeconds(JsSub(s.timerEndTime, now)))]
             s2 == IF s1.timerAnimationFrame # 0
                   THEN [cancelAnimationFrame(s1, s1.timerAnimationFrame)
                            EXCEPT !.timerAnimationFrame = 0]
                   ELSE s1
         IN  updateTimerDisplay([s2 EXCEPT !.startBtnText = "Start"])

pauseTimer(s) ==
    IF ~s.timerRunning THEN s
    ELSE LET s1 == [s EXCEPT !.timerRunning = FALSE]
             s2 == IF s1.timerAnimationFrame # 0
                   THEN [cancelAnimationFrame(s1, s1.timerAnimationFrame)
                            EXCEPT !.timerAnimationFrame = 0]
                   ELSE s1
             s3 == [s2 EXCEPT !.startBtnText = "Start"]
         IN  updateTimerDisplay(s3)

\* playBeepSound without the try / catch: the exception leaves the method
playBeepSound_NoCatch(s, audio) ==
    [s EXCEPT !.cue = IF audio THEN "tone" ELSE "thrown"]

\* audio: the AudioContext can be built and driven.  Otherwise a call in the
\* try block throws, the catch block logs it and the method returns normally.
playBeepSound(s, audio) ==
    [s EXCEPT !.cue = IF audio THEN "tone" ELSE "logged"]

\* the statement after a call runs unless the call has thrown
AfterCall(s, next) == IF s.cue = "thrown" THEN s ELSE next

\* completeTimer that loads the duration of the phase that has just ended
completeTimer_OldPhase(s, audio) ==
    LET s1 == pauseTimer(s)
        s2 == [s1 EXCEPT !.timeLeft = IF s1.isWorkSession THEN s1.workTime ELSE s1.breakTime]
        s3 == [s2 EXCEPT !.isWorkSession = ~s2.isWorkSession]
        sessionType == IF s3.isWorkSession THEN "Work" ELSE "Break"
        s4 == [s3 EXCEPT !.statusText = <<sessionType, "Session Complete!">>]
        s5 == playBeepSound(s4, audio)
    IN  AfterCall(s5, setTimeoutRestart(s5))

completeTimer(s, audio) ==
    LET s1 == pauseTimer(s)
        s2 == [s1 EXCEPT !.isWorkSession = ~s1.isWorkSession]
        s3 == [s2 EXCEPT !.timeLeft = IF s2.isWorkSession THEN s2.workTime ELSE s2.breakTime]
        sessionType == IF s3.isWorkSession THEN "Work" ELSE "Break"
        s4 == [s3 EXCEPT !.statusText = <<sessionType, "Session Complete!">>]
        s5 == playBeepSound(s4, audio)
    IN  AfterCall(s5, setTimeoutRestart(s5))

\* a tick that counts down by one per call (as in the setInterval variant)
tick_Decrement(s, audio) ==
    IF ~s.timerRunning THEN s
    ELSE LET remainingSec == JsSub(s.timeLeft, 1)
         IN  IF JsLeq(remainingSec, 0) THEN completeTimer(s, audio)
             ELSE requestAnimationFrame(
                    updateTimerDisplay([s EXCEPT !.timeLeft = remainingSec]))

\* the frame callback of startTimer
tick(s, audio) ==
    IF ~s.timerRunning THEN s
    ELSE LET remainingMs == JsSub(s.timerEndTime, now)
             remainingSec == Max0(RoundSeconds(remainingMs))
         IN  IF JsLeq(remainingSec, 0) THEN completeTimer(s, audio)
             ELSE LET s1 == IF JsStrictNeq(remainingSec, s.timeLeft)
                            THEN updateTimerDisplay([s EXCEPT !.timeLeft = remainingSec])
                            ELSE s
                  IN  requestAnimationFrame(s1)

\* startTimer without the early return (as in the setInterval variant)
startTimer_NoGuard(s) ==
    LET s1 == [s EXCEPT !.timerRunning = TRUE, !.startBtnText = "Pause"]
        s2 == [s1 EXCEPT !.timerEndTime = JsAdd(now, JsMul(s1.timeLeft, 1000))]
    IN  updateTimerDisplay(requestAnimationFrame(s2))

\* startTimer that adds the seconds to the millisecond clock unscaled
startTimer_NoScale(s) ==
    IF s.timerRunning THEN s
    ELSE LET s1 == [s EXCEPT !.timerRunning = TRUE, !.startBtnText = "Pause"]
             s2 == [s1 EXCEPT !.timerEndTime = JsAdd(now, s1.timeLeft)]
         IN  updateTimerDisplay(requestAnimationFrame(s2))

\* startTimer that resumes towards the end time of the interrupted run
startTimer_OldEnd(s) ==
    IF s.timerRunning THEN s
    ELSE LET s1 == [s EXCEPT !.timerRunning = TRUE, !.startBtnText = "Pause"]
             s2 == [s1 EXCEPT !.timerEndTime =
                        IF @ = Null THEN JsAdd(now, JsMul(s1.timeLeft, 1000)) ELSE @]
         IN  updateTimerDisplay(requestAnimationFrame(s2))

startTimer(s) ==
    IF s.timerRunning THEN s
    ELSE LET s1 == [s EXCEPT !.timerRunning = TRUE, !.startBtnText = "Pause"]
             s2 == [s1 EXCEPT !.timerEndTime = JsAdd(now, JsMul(s1.timeLeft, 1000))]
         IN  updateTimerDisplay(requestAnimationFrame(s2))

toggleTimer(s) == IF s.timerRunning THEN pauseTimer(s) ELSE startTimer(s)

\* resetTimer that leaves the phase as it is
resetTimer_KeepPhase(s) ==
    LET s1 == pauseTimer(s)
        s2 == [s1 EXCEPT !.timeLeft = s1.workTime]
        s3 == updateTimerDisplay(s2)
    IN  [s3 EXCEPT !.statusText = <<"Ready">>, !.progressWidth = <<0, 1>>]

resetTimer(s) ==
    LET s1 == pauseTimer(s)
        s2 == [s1 EXCEPT !.isWorkSession = TRUE, !.timeLeft = s1.workTime]
        s3 == updateTimerDisplay(s2)
    IN  [s3 EXCEPT !.statusText = <<"Ready">>, !.progressWidth = <<0, 1>>]

toggleTimerSettings(s) ==
    [s EXCEPT !.settingsDisplay = IF @ # "none" THEN "none" ELSE "block"]

updateTimerInfo(s, workText, breakText) ==
    [s EXCEPT !.infoText = <<workText, breakText>>]

\* saveTimerSettings that always loads the work duration ("reset to new work
\* time")
saveTimerSettings_WorkOnly(s, workText, breakText) ==
    LET s1 == [s EXCEPT !.workTime = JsMul(parseInt(workText), 60),
                        !.breakTime = JsMul(parseInt(breakText), 60)]
        s2 == IF ~s1.timerRunning
              THEN updateTimerDisplay([s1 EXCEPT !.timeLeft = s1.workTime])
              ELSE s1
    IN  toggleTimerSettings(updateTimerInfo(s2, workText, breakText))

\* saveTimerSettings without the test of timerRunning
saveTimerSettings_AlwaysReset(s, workText, breakText) ==
    LET s1 == [s EXCEPT !.workTime = JsMul(parseInt(workText), 60),
                        !.breakTime = JsMul(parseInt(breakText), 60)]
        s2 == updateTimerDisplay(
                [s1 EXCEPT !.timeLeft = IF s1.isWorkSession THEN s1.workTime
                                        ELSE s1.breakTime])
    IN  toggleTimerSettings(updateTimerInfo(s2, workText, breakText))

saveTimerSettings(s, workText, breakText) ==
    LET s1 == [s EXCEPT !.workTime = JsMul(parseInt(workText), 60),
                        !.breakTime = JsMul(parseInt(breakText), 60)]
        s2 == IF ~s1.timerRunning
              THEN updateTimerDisplay(
                     [s1 EXCEPT !.timeLeft = IF s1.isWorkSession THEN s1.workTime
                                             ELSE s1.breakTime])
              ELSE s1
    IN  toggleTimerSettings(updateTimerInfo(s2, workText, breakText))

onClose(s) ==
    IF s.timerAnimationFrame # 0
    THEN cancelAnimationFrame(s, s.timerAnimationFrame)
    ELSE s

-----------------------------------------------------------------------------
(* JavaScript dates: a local date is <<year, month, day>>, month 0-based *)

IsLeapYear(y) == (y % 4 = 0 /\ y % 100 # 0) \/ y % 400 = 0

\* days of month m (0..11) of year y
DaysInMonth(y, m) ==
    IF m = 1 THEN (IF IsLeapYear(y) THEN 29 ELSE 28)
    ELSE IF m \in {3, 5, 8, 10} THEN 30 ELSE 31

\* MakeDay / MakeDate of ECMAScript: a month outside 0..11 moves the year, a
\* day outside the month moves on into the next months or back into the
\* previous ones
RECURSIVE MakeDate(_, _, _)
MakeDate(y, m, d) ==
    LET yy == y + (m \div 12)
        mm == m % 12
    IN  IF d < 1 THEN MakeDate(yy, mm - 1, d + DaysInMonth(yy + ((mm - 1) \div 12), (mm - 1) % 12))
        ELSE IF d > DaysInMonth(yy, mm) THEN MakeDate(yy, mm + 1, d - DaysInMonth(yy, mm))
        ELSE <<yy, mm, d>>

\* new Date(year, month, day): a year 0..99 means 1900 + year
NewDate(y, m, d) == MakeDate(IF y \in 0..99 THEN 1900 + y ELSE y, m, d)

getFullYear(date) == date[1]
getMonth(date) == date[2]
getDate(date) == date[3]

\* date.setMonth(m): the day of the month is kept and normalised
setMonth(date, m) == MakeDate(getFullYear(date), m, getDate(date))

\* days from 0001-01-01 (day 1, a Monday) to the date
RECURSIVE DaysBeforeMonth(_, _)
DaysBeforeMonth(y, m) ==
    IF m = 0 THEN 0 ELSE DaysBeforeMonth(y, m - 1) + DaysInMonth(y, m - 1)

DayNumber(date) ==
    LET y == date[1] - 1
    IN  365 * y + (y \div 4) - (y \div 100) + (y \div 400)
            + DaysBeforeMonth(date[1], date[2]) + date[3]

\* date.getDay(): 0 is Sunday
getDay(date) == DayNumber(date) % 7

NextDay(date) == MakeDate(date[1], date[2], date[3] + 1)

\* String(n): the decimal digits of n >= 0
RECURSIVE Digits(_)
Digits(n) == IF n < 10 THEN <<n>> ELSE Append(Digits(n \div 10), n % 10)

\* text.padStart(2, '0')
PadStart2(text) == IF Len(text) < 2 THEN <<0>> \o text ELSE text

-----------------------------------------------------------------------------
(* SimpleWorkingView: the calendar *)

\* todayRead: the date new Date() gives at the moment of the call
isDateToday(date, todayRead) ==
    /\ getDate(date) = getDate(todayRead)
    /\ getMonth(date) = getMonth(todayRead)
    /\ getFullYear(date) = getFullYear(todayRead)

\* `${year}-${month}-${day}` as <<digits of year, of month, of day>>
formatDateString(date) ==
    <<Digits(getFullYear(date)),
      PadStart2(Digits(getMonth(date) + 1)),
      PadStart2(Digits(getDate(date)))>>

\* renderCalendar with the week starting on Sunday
renderCalendar_SundayFirst(cursor, reads) ==
    LET year == getFullYear(cursor)
        month == getMonth(cursor)
        firstDay == NewDate(year, month, 1)
        lastDay == NewDate(year, month + 1, 0)
        daysInMonth == getDate(lastDay)
    IN  [year |-> year, month |-> month,
         blanks |-> getDay(firstDay),
         days |-> [day \in 1..daysInMonth |->
                     LET date == NewDate(year, month, day)
                     IN  [day |-> day,
                          today |-> isDateToday(date, reads[day]),
                          date |-> formatDateString(date)]]]

\* The container after renderCalendar: the month and year of the title, the
\* empty cells before the first day, and the day cells in order.  reads[day]
\* is the date the wall clock shows when the cell of that day is built.
renderCalendar(cursor, reads) ==
    LET year == getFullYear(cursor)
        month == getMonth(cursor)
        firstDay == NewDate(year, month, 1)
        lastDay == NewDate(year, month + 1, 0)
        daysInMonth == getDate(lastDay)
        startDay == IF getDay(firstDay) = 0 THEN 6 ELSE getDay(firstDay) - 1
    IN  [year |-> year, month |-> month,
         blanks |-> startDay,
         days |-> [day \in 1..daysInMonth |->
                     LET date == NewDate(year, month, day)
                     IN  [day |-> day,
                          today |-> isDateToday(date, reads[day]),
                          date |-> formatDateString(date)]]]

-----------------------------------------------------------------------------
(* SimpleWorkingView: the tasks *)

\* the texts the user types into the task input
TaskTexts == {<<>>, <<" ">>, <<"a">>, <<" ", "a", " ", "b", " ">>}

\* the tasks a list may hold, and the last value of the clock
MaxTasks == 3
MaxClock == 2

\* the ids given to toggleTask and deleteTask
TaskIds == 0..MaxClock

RECURSIVE TrimStart(_)
TrimStart(text) ==
    IF text # <<>> /\ Head(text) = " " THEN TrimStart(Tail(text)) ELSE text

RECURSIVE TrimEnd(_)
TrimEnd(text) ==
    IF text # <<>> /\ text[Len(text)] = " "
    THEN TrimEnd(SubSeq(text, 1, Len(text) - 1))
    ELSE text

\* String.prototype.trim
trim(text) == TrimEnd(TrimStart(text))

\* addTask that takes the input's value as it is
addTask_NoTrim(t, time) ==
    IF t.input = <<>> THEN t
    ELSE [tasks |-> Append(t.tasks, [id |-> time, text |-> t.input, completed |-> FALSE]),
          input |-> <<>>]

\* t: the task list and the value of the task input; time: Date.now()
addTask(t, time) ==
    LET text == trim(t.input)
    IN  IF text = <<>> THEN t
        ELSE [tasks |-> Append(t.tasks, [id |-> time, text |-> text, completed |-> FALSE]),
              input |-> <<>>]

\* toggleTask that flips every task with the id
toggleTask_All(list, taskId) ==
    [i \in DOMAIN list |->
        IF list[i].id = taskId THEN [list[i] EXCEPT !.completed = ~@] ELSE list[i]]

\* this.tasks.find(t => t.id === taskId) flips the first task with the id
toggleTask(list, taskId) ==
    LET found == {i \in DOMAIN list : list[i].id = taskId}
    IN  IF found = {} THEN list
        ELSE LET first == CHOOSE i \in found : \A j \in found : i <= j
             IN  [list EXCEPT ![first].completed = ~@]

\* this.tasks.filter(t => t.id !== taskId)
Differs(taskId, task) == task.id # taskId

deleteTask(list, taskId) == SelectSeq(list, LAMBDA task : Differs(taskId, task))

-----------------------------------------------------------------------------
(* The setInterval variant of the timer (src/main.js, lines 1-856) *)

\* the durations saved in the earlier variant's settings; the pending
\* intervals and setTimeout callbacks followed
EarlierInputs == {<<"1", "1">>}
MaxIntervals == 2
MaxRestarts == 2

\* setInterval returns a handle in use nowhere
v1_FreshInterval(e) ==
    CHOOSE h \in 1..(Cardinality(e.intervals) + 2) :
        /\ h \notin e.intervals
        /\ h # e.timerInterval
        /\ \A k \in 1..(h - 1) : k \in e.intervals \/ k = e.timerInterval

v1_startTimer(e) ==
    LET h == v1_FreshInterval(e)
    IN  [e EXCEPT !.timerRunning = TRUE, !.timerInterval = h, !.intervals = @ \cup {h}]

\* clearInterval(this.timerInterval)
v1_pauseTimer(e) ==
    [e EXCEPT !.timerRunning = FALSE, !.intervals = @ \ {e.timerInterval}]

v1_toggleTimer(e) == IF e.timerRunning THEN v1_pauseTimer(e) ELSE v1_startTimer(e)

v1_resetTimer(e) ==
    LET p == v1_pauseTimer(e)
    IN  [p EXCEPT !.isWorkSession = TRUE, !.timeLeft = p.workTime]

\* ends with setTimeout(() => this.startTimer(), 2000)
v1_completeTimer(e) ==
    LET p == v1_pauseTimer(e)
        work == ~p.isWorkSession
    IN  [p EXCEPT !.isWorkSession = work,
                  !.timeLeft = IF work THEN p.workTime ELSE p.breakTime,
                  !.restarts = @ + 1]

\* the callback given to setInterval
v1_interval(e) ==
    IF IsNum(e.timeLeft) /\ e.timeLeft > 0
    THEN [e EXCEPT !.timeLeft = @ - 1]
    ELSE v1_completeTimer(e)

v1_toggleTimerSettings(e) ==
    [e EXCEPT !.settingsDisplay = IF @ # "none" THEN "none" ELSE "block"]

v1_saveTimerSettings(e, workText, breakText) ==
    LET e1 == [e EXCEPT !.workTime = JsMul(parseInt(workText), 60),
                        !.breakTime = JsMul(parseInt(breakText), 60)]
        e2 == IF ~e1.timerRunning THEN [e1 EXCEPT !.timeLeft = e1.workTime] ELSE e1
    IN  v1_toggleTimerSettings(e2)

v1_constructed ==
    [workTime |-> 40 * 60, breakTime |-> 5 * 60, timeLeft |-> 40 * 60,
     isWorkSession |-> TRUE, timerRunning |-> FALSE, timerInterval |-> 0,
     intervals |-> {}, restarts |-> 0, settingsDisplay |-> "none"]


-----------------------------------------------------------------------------
(* Two open instances of the view *)

Views == {1, 2}

\* With two views followed: the tasks a list holds, the months after the month
\* of the opening that the calendars show, and the texts typed
MaxViewTasks == 1
ViewMonths == {0, 1}
ViewTexts == {<<" ", "a">>}

\* With the three components of one view followed: the months the calendar is
\* moved ahead of the month of the opening
MaxAway == 1

\* the elements of the timer that document.querySelector finds: the first
\* view's, whichever view asks
timerElements_Document(v) == 1

\* this.timerElements: the view whose section holds the elements that the
\* handlers of view v read and write, found with timerDiv.querySelector
timerElements(v) == v

\* this.taskElements, found with tasksDiv.querySelector
taskElements(v) == v

\* the timer record with the fields of `fields` and the elements of `elements`
WithElements(fields, elements) ==
    [fields EXCEPT !.startBtnText = elements.startBtnText,
                   !.timeText = elements.timeText,
                   !.statusText = elements.statusText,
                   !.progressWidth = elements.progressWidth,
                   !.progressBackground = elements.progressBackground,
                   !.settingsDisplay = elements.settingsDisplay,
                   !.infoText = elements.infoText]

-----------------------------------------------------------------------------
(* SimpleTestPlugin: activateView and the host's workspace *)

VIEW_TYPE == "deadline-view"

\* leaves getLeftLeaf hands out in all, and activateView calls that wait at
\* their await at once
MaxLeaves == 3
MaxActivations == 2

\* workspace.getLeavesOfType(type): a leaf counts once the host has given it
\* a view of the type
getLeavesOfType(ws, type) == {l \in DOMAIN ws.leaves : ws.leaves[l] = type}

\* leaves[0] of a list of leaves that is not empty; the workspace lists the
\* leaves in the order of their creation
FirstLeaf(leaves) == CHOOSE l \in leaves : \A k \in leaves : l <= k

\* workspace.getLeftLeaf(false): a new, empty leaf in the left sidebar, the
\* ws.created-th of the workspace
getLeftLeaf(ws) ==
    [ws EXCEPT !.created = @ + 1,
               !.leaves = [l \in DOMAIN @ \cup {ws.created + 1} |->
                              IF l \in DOMAIN @ THEN @[l] ELSE "empty"]]

\* the host builds the view of the registered type in the leaf
OpenView(ws, leaf, type) == [ws EXCEPT !.leaves[leaf] = type]

\* leaf.setViewState({type, active: true}) up to the point where it returns
\* its promise.  atOnce: the host has built the view by then; otherwise it
\* builds it later, before the promise is fulfilled.
setViewState(ws, leaf, type, atOnce) ==
    IF atOnce THEN OpenView(ws, leaf, type) ELSE ws

\* workspace.revealLeaf(leaf)
revealLeaf(ws, leaf) ==
    IF leaf \in DOMAIN ws.leaves THEN [ws EXCEPT !.revealed = leaf] ELSE ws

\* activateView up to its await, called by the ribbon icon or the command
activateView(ws, by, atOnce) ==
    LET found == getLeavesOfType(ws, VIEW_TYPE)
        ws1 == IF found = {} THEN getLeftLeaf(ws) ELSE ws
        leaf == IF found = {} THEN ws1.created ELSE FirstLeaf(found)
        ws2 == setViewState(ws1, leaf, VIEW_TYPE, atOnce)
    IN  [ws2 EXCEPT !.waiting = Append(@, [leaf |-> leaf, by |-> by])]

\* activateView after its await: the i-th waiting call goes on
activateView_Resumed(ws, i) ==
    LET ws1 == revealLeaf(ws, ws.waiting[i].leaf)
    IN  [ws1 EXCEPT !.waiting = SubSeq(@, 1, i - 1) \o SubSeq(@, i + 1, Len(@))]

-----------------------------------------------------------------------------
(* The state after construction and onOpen() *)

constructed ==
    [workTime |-> 40 * 60, breakTime |-> 5 * 60, timeLeft |-> 40 * 60,
     isWorkSession |-> TRUE, timerRunning |-> FALSE, timerEndTime |-> Null,
     timerAnimationFrame |-> 0,
     frames |-> {}, restartTimers |-> <<>>,
     startBtnText |-> "Start", timeText |-> <<40, 0>>, statusText |-> <<"Ready">>,
     progressWidth |-> <<>>, progressBackground |-> "",
     settingsDisplay |-> "none", infoText |-> <<"40", "5">>,
     cue |-> "none"]

\* addTimerSection ends with the initial render
addTimerSection == updateTimerDisplay(constructed)

TimerInit ==
    /\ workTime = addTimerSection.workTime
    /\ breakTime = addTimerSection.breakTime
    /\ timeLeft = addTimerSection.timeLeft
    /\ isWorkSession = addTimerSection.isWorkSession
    /\ timerRunning = addTimerSection.timerRunning
    /\ timerEndTime = addTimerSection.timerEndTime
    /\ timerAnimationFrame = addTimerSection.timerAnimationFrame
    /\ frames = addTimerSection.frames
    /\ restartTimers = addTimerSection.restartTimers
    /\ startBtnText = addTimerSection.startBtnText
    /\ timeText = addTimerSection.timeText
    /\ statusText = addTimerSection.statusText
    /\ progressWidth = addTimerSection.progressWidth
    /\ progressBackground = addTimerSection.progressBackground
    /\ settingsDisplay = addTimerSection.settingsDisplay
    /\ infoText = addTimerSection.infoText
    /\ cue = addTimerSection.cue
    /\ closed = FALSE
    /\ userGone = FALSE
    /\ lastOp = "open"
    /\ pauseAge = "none"

\* The dates the view may be opened on
InitialDates ==
    {<<FirstYear + 1, m, d>> : m \in 0..11, d \in 1..31} \cap
        {date \in (FirstYear..LastYear) \X (0..11) \X (1..31) :
            date[3] <= DaysInMonth(date[1], date[2])}

\* The wall-clock dates read while the n day cells are built, the clock
\* showing `from` at the start and passing midnight after cell k (k = n: no
\* midnight passes)
ClockReads(from, n, k) ==
    [day \in 1..n |-> IF day <= k THEN from ELSE NextDay(from)]

\* the last of the reads (n >= 28)
ClockAfter(from, n, k) == ClockReads(from, n, k)[n]

\* Where midnight may fall in a render of n day cells that starts on the
\* date `from`, m midnights gone: nowhere (n), before the first cell (0), or
\* right after the cell with the day number of `from`
MidnightAt(from, n, m) ==
    {n} \cup (IF m < MaxMidnights THEN {0, getDate(from)} \cap 0..(n - 1) ELSE {})

\* constructor (this.currentDate = new Date()) and addCalendarSection
CalendarOpened(date, k) ==
    LET n == DaysInMonth(getFullYear(date), getMonth(date))
    IN  /\ currentDate = date
        /\ calendar = renderCalendar(date, ClockReads(date, n, k))
        /\ today = ClockAfter(date, n, k)
        /\ midnights = (IF k < n THEN 1 ELSE 0)
        /\ lastNav = "none"
        /\ navFrom = <<>>

\* No call of createDailyFile has been made; the vault holds none of the
\* documents of the days that are clicked.
DocumentsInit ==
    /\ files = {}
    /\ calls = <<>>
    /\ opened = <<>>
    /\ successMessages = <<>>
    /\ errorMessages = {}

TasksInit ==
    /\ tasks = <<>>
    /\ taskInput = <<>>
    /\ clock = 0

\* the date the views are opened on where one date is followed
OpeningDate == CHOOSE d \in InitialDates : TRUE

\* the timer after the durations of one minute have been saved
shortSessions == saveTimerSettings(toggleTimerSettings(addTimerSection), "1", "1")

\* two views in which these durations have been saved
ViewsInit ==
    views = [v \in Views |-> [timer |-> shortSessions, tasks |-> <<>>,
                              input |-> <<>>, currentDate |-> OpeningDate]]

EarlierInit == earlier = v1_constructed

\* onload(): no leaf of the view yet, no activateView under way
WorkspaceInit ==
    workspace = [leaves |-> [l \in {} |-> "empty"], created |-> 0,
                 revealed |-> 0, waiting |-> <<>>]

\* The timer is followed with the view opened on one of the dates
Init ==
    /\ TimerInit
    /\ DocumentsInit
    /\ TasksInit
    /\ ViewsInit
    /\ EarlierInit
    /\ WorkspaceInit
    /\ \E date \in {OpeningDate} :
           CalendarOpened(date, DaysInMonth(getFullYear(date), getMonth(date)))

\* The calendar is followed from every date
CalendarInit ==
    /\ TimerInit
    /\ DocumentsInit
    /\ TasksInit
    /\ ViewsInit
    /\ EarlierInit
    /\ WorkspaceInit
    /\ \E date \in InitialDates :
           \E k \in MidnightAt(date, DaysInMonth(getFullYear(date), getMonth(date)), 0) :
               CalendarOpened(date, k)

-----------------------------------------------------------------------------
(* History variables *)

\* after timer operation op
History(op) ==
    /\ lastOp' = op
    /\ pauseAge' = IF op = "pause" THEN "short"
                   ELSE IF op = "start" /\ lastOp = "pause" THEN pauseAge
                   ELSE "none"

-----------------------------------------------------------------------------
(* Handlers *)

UserPresent == ~closed /\ ~userGone

\* click on Start / Pause
ToggleClick ==
    /\ UserPresent
    /\ Commit(toggleTimer(Self))
    /\ History(IF timerRunning THEN "pause" ELSE "start")
    /\ UNCHANGED <<closed, userGone>>

\* click on Reset
ResetClick ==
    /\ UserPresent
    /\ Commit(resetTimer(Self))
    /\ History("reset")
    /\ UNCHANGED <<closed, userGone>>

\* click on Settings, or on Cancel in the open panel
SettingsClick ==
    /\ UserPresent
    /\ Commit(toggleTimerSettings(Self))
    /\ UNCHANGED <<closed, userGone, lastOp, pauseAge>>

\* click on Save in the open panel, the inputs holding workText and breakText
SaveClick(workText, breakText) ==
    /\ UserPresent
    /\ settingsDisplay # "none"
    /\ Commit(saveTimerSettings(Self, workText, breakText))
    /\ History("save")
    /\ UNCHANGED <<closed, userGone>>

\* the browser runs the pending frame callback h; audio: whether the tone
\* can be played at this moment
Frame(h, audio) ==
    /\ h \in frames
    /\ \E s \in {tick([Self EXCEPT !.frames = @ \ {h}], audio)} :
        /\ Commit(s)
        /\ History(IF ~timerRunning THEN "stale tick"
                   ELSE IF Len(s.restartTimers) > Len(restartTimers) THEN "complete"
                   ELSE "tick")
    /\ UNCHANGED <<closed, userGone>>

\* the browser runs the oldest setTimeout callback, once it is due
RestartTimeout ==
    /\ restartTimers # <<>>
    /\ Head(restartTimers) <= now
    /\ \E s \in {startTimer([Self EXCEPT !.restartTimers = Tail(@)])} :
        /\ Commit(s)
        /\ History(IF timerRunning THEN "restart ignored" ELSE "restart")
    /\ UNCHANGED <<closed, userGone>>

\* the host closes the view
Close ==
    /\ UserPresent
    /\ Commit(onClose(Self))
    /\ closed' = TRUE
    /\ UNCHANGED <<userGone, lastOp, pauseAge>>

\* a timestamp t, d ms later
Shift(t, d) ==
    IF ~IsNum(t) THEN t
    ELSE IF t - d < now - MaxLate THEN now - MaxLate ELSE t - d

Deadlines ==
    (IF timerRunning /\ IsNum(timerEndTime) THEN {timerEndTime} ELSE {})
        \cup {restartTimers[i] : i \in DOMAIN restartTimers}

Advances ==
    {Step, Leap} \cup {t - Horizon - now : t \in {u \in Deadlines : u > now + Horizon}}

\* d ms pass
AdvanceClock(d) ==
    /\ d = Step => \E t \in Deadlines : t <= now + Horizon
    /\ d = Leap => \A t \in Deadlines : t <= now + MaxAhead
    /\ \A i \in DOMAIN restartTimers : restartTimers[i] - d >= now - MaxLate
    /\ timerEndTime' = Shift(timerEndTime, d)
    /\ restartTimers' = [i \in DOMAIN restartTimers |-> Shift(restartTimers[i], d)]
    /\ pauseAge' = IF lastOp = "pause" /\ d >= Leap THEN "long" ELSE pauseAge
    /\ UNCHANGED <<workTime, breakTime, timeLeft, isWorkSession, timerRunning,
                   timerAnimationFrame, frames, startBtnText, timeText, statusText,
                   progressWidth, progressBackground, settingsDisplay, infoText,
                   cue, closed, userGone, lastOp, outsideTimer>>

\* the user leaves the running timer alone from now on
WalkAway ==
    /\ UserPresent
    /\ lastOp = "start"
    /\ userGone' = TRUE
    /\ UNCHANGED <<view, cue, closed, lastOp, pauseAge, outsideTimer>>

FrameStep == \E h \in frames, audio \in BOOLEAN : Frame(h, audio)

ClockStep == \E d \in Advances : AdvanceClock(d)

Next ==
    \/ ToggleClick
    \/ ResetClick
    \/ SettingsClick
    \/ \E in \in InputTexts : SaveClick(in[1], in[2])
    \/ FrameStep
    \/ RestartTimeout
    \/ Close
    \/ ClockStep

Spec == Init /\ [][Next]_vars

-----------------------------------------------------------------------------
(* The calendar's handlers *)

\* click on the next-month (delta = 1) or previous-month (delta = -1) button,
\* midnight passing after day cell k of the render
Navigate(delta, k) ==
    /\ UserPresent
    /\ \E target \in {setMonth(currentDate, getMonth(currentDate) + delta)} :
        LET n == DaysInMonth(getFullYear(target), getMonth(target))
        IN  /\ getFullYear(target) \in FirstYear..LastYear
            /\ k \in MidnightAt(today, n, midnights)
            /\ currentDate' = target
            /\ calendar' = renderCalendar(target, ClockReads(today, n, k))
            /\ today' = ClockAfter(today, n, k)
            /\ midnights' = (IF k < n THEN midnights + 1 ELSE midnights)
    /\ lastNav' = (IF delta = 1 THEN "next" ELSE "prev")
    /\ navFrom' = <<calendar.year, calendar.month>>
    /\ UNCHANGED <<timerVars, taskVars, otherVars, documentVars>>

PrevClick == \E k \in {0, getDate(today), 28, 29, 30, 31} : Navigate(-1, k)

NextClick == \E k \in {0, getDate(today), 28, 29, 30, 31} : Navigate(1, k)

\* midnight passes while no handler runs
Midnight ==
    /\ midnights < MaxMidnights
    /\ today' = NextDay(today)
    /\ midnights' = midnights + 1
    /\ UNCHANGED <<timerVars, taskVars, otherVars, documentVars, currentDate, calendar, lastNav, navFrom>>

CalendarNext ==
    \/ PrevClick
    \/ NextClick
    \/ Midnight

CalendarSpec == CalendarInit /\ [][CalendarNext]_vars

-----------------------------------------------------------------------------
(* createDailyFile and the host's vault and workspace *)

\* `${dateStr}.md`
FileName(dateStr) == <<dateStr, ".md">>

\* the message of the error vault.create rejects with when the name is taken
AlreadyExists == "File already exists."

\* the calls without the i-th
Finished(i) == SubSeq(calls, 1, i - 1) \o SubSeq(calls, i + 1, Len(calls))
\* a catch block that only logs the error
ShowError_LogOnly(name, message) == UNCHANGED errorMessages

\* the catch block: section.createEl("p", {cls: "error-message"})
ShowError(name, message) == errorMessages' = errorMessages \cup {<<name, message>>}

\* Click on the cell of `day`: createDailyFile up to its first await.  check
\* is how getAbstractFileByPath ends; it finds the documents the vault holds.
DayClick(day, check) ==
    /\ UserPresent
    /\ day \in DOMAIN calendar.days
    /\ Len(calls) < MaxPending
    /\ LET name == FileName(calendar.days[day].date)
       IN  IF check = "fail"
           THEN /\ ShowError(name, "lookup failed")
                /\ UNCHANGED calls
           ELSE /\ calls' = Append(calls, [name |-> name,
                                           await |-> IF name \in files THEN "open existing"
                                                     ELSE "create"])
                /\ UNCHANGED errorMessages
    /\ UNCHANGED <<timerVars, taskVars, otherVars, calendarVars, files, opened, successMessages>>

\* vault.create of call i settles.  The vault holds a document under its name
\* from the moment its creation has succeeded, and rejects the creation of a
\* name it holds; outcome is how the creation ends otherwise.  After the
\* creation the call goes on to leaf.openFile(newFile).
CreateSettles(i, outcome) ==
    /\ i \in DOMAIN calls
    /\ calls[i].await = "create"
    /\ IF calls[i].name \in files
       THEN /\ ShowError(calls[i].name, AlreadyExists)
            /\ calls' = Finished(i)
            /\ UNCHANGED files
       ELSE IF outcome = "fail"
       THEN /\ ShowError(calls[i].name, "create failed")
            /\ calls' = Finished(i)
            /\ UNCHANGED files
       ELSE /\ files' = files \cup {calls[i].name}
            /\ calls' = [calls EXCEPT ![i].await = "open new"]
            /\ UNCHANGED errorMessages
    /\ UNCHANGED <<timerVars, taskVars, otherVars, calendarVars, opened, successMessages>>

\* leaf.openFile of call i settles; after the opening of a new document the
\* call shows the success message and sets the timeout that removes it
OpenSettles(i, outcome) ==
    /\ i \in DOMAIN calls
    /\ calls[i].await \in {"open existing", "open new"}
    /\ calls' = Finished(i)
    /\ IF outcome = "fail"
       THEN /\ ShowError(calls[i].name, "open failed")
            /\ UNCHANGED <<opened, successMessages>>
       ELSE /\ opened' = calls[i].name
            /\ successMessages' = IF calls[i].await = "open new"
                                   THEN Append(successMessages, calls[i].name)
                                   ELSE successMessages
            /\ UNCHANGED errorMessages
    /\ UNCHANGED <<timerVars, taskVars, otherVars, calendarVars, files>>

\* setTimeout(() => successMsg.remove(), 3000) of the oldest message
SuccessTimeout ==
    /\ successMessages # <<>>
    /\ successMessages' = Tail(successMessages)
    /\ UNCHANGED <<timerVars, taskVars, otherVars, calendarVars, files, calls, opened, errorMessages>>

DocumentNext ==
    \/ \E day \in ClickDays, check \in Outcomes : DayClick(day, check)
    \/ \E i \in 1..MaxPending, outcome \in Outcomes : CreateSettles(i, outcome)
    \/ \E i \in 1..MaxPending, outcome \in Outcomes : OpenSettles(i, outcome)
    \/ SuccessTimeout

DocumentSpec == Init /\ [][DocumentNext]_vars

-----------------------------------------------------------------------------
(* The tasks' handlers *)

\* the user edits the task input
TypeTask(text) ==
    /\ UserPresent
    /\ taskInput' = text
    /\ UNCHANGED <<timerVars, calendarVars, documentVars, tasks, clock, otherVars>>

\* click on Add, or Enter in the task input
AddClick ==
    /\ UserPresent
    /\ Len(tasks) < MaxTasks
    /\ \E t \in {addTask([tasks |-> tasks, input |-> taskInput], clock)} :
        /\ tasks' = t.tasks
        /\ taskInput' = t.input
    /\ UNCHANGED <<timerVars, calendarVars, documentVars, clock, otherVars>>

\* toggleTask(taskId); a checkbox calls it with the id of its task
ToggleTask(taskId) ==
    /\ UserPresent
    /\ tasks' = toggleTask(tasks, taskId)
    /\ UNCHANGED <<timerVars, calendarVars, documentVars, taskInput, clock, otherVars>>
\* a deleteTask that also takes the calendar back to the month of today
DeleteTask_ToToday(taskId) ==
    /\ UserPresent
    /\ tasks' = deleteTask(tasks, taskId)
    /\ currentDate' = today
    /\ UNCHANGED <<timerVars, today, calendar, midnights, lastNav, navFrom,
                   documentVars, taskInput, clock, otherVars>>

\* deleteTask(taskId); a delete button calls it with the id of its task
DeleteTask(taskId) ==
    /\ UserPresent
    /\ tasks' = deleteTask(tasks, taskId)
    /\ UNCHANGED <<timerVars, calendarVars, documentVars, taskInput, clock, otherVars>>

\* a millisecond passes
Tick ==
    /\ clock < MaxClock
    /\ clock' = clock + 1
    /\ UNCHANGED <<timerVars, calendarVars, documentVars, tasks, taskInput, otherVars>>

TaskNext ==
    \/ \E text \in TaskTexts : TypeTask(text)
    \/ AddClick
    \/ \E taskId \in TaskIds : ToggleTask(taskId)
    \/ \E taskId \in TaskIds : DeleteTask(taskId)
    \/ Tick

TaskSpec == Init /\ [][TaskNext]_vars

-----------------------------------------------------------------------------
(* The setInterval variant's handlers *)

EarlierStep(e) ==
    /\ earlier' = e
    /\ UNCHANGED <<timerVars, calendarVars, documentVars, taskVars, views, workspace>>

\* click on Start / Pause
EarlierToggleClick ==
    /\ earlier.timerRunning \/ Cardinality(earlier.intervals) < MaxIntervals
    /\ EarlierStep(v1_toggleTimer(earlier))

\* click on Reset
EarlierResetClick == EarlierStep(v1_resetTimer(earlier))

\* click on the settings button or on Cancel
EarlierSettingsClick == EarlierStep(v1_toggleTimerSettings(earlier))

\* click on Save in the open panel
EarlierSaveClick(workText, breakText) ==
    /\ earlier.settingsDisplay # "none"
    /\ EarlierStep(v1_saveTimerSettings(earlier, workText, breakText))

\* a period of the interval h has elapsed
IntervalTick(h) ==
    /\ h \in earlier.intervals
    /\ earlier.restarts < MaxRestarts
    /\ EarlierStep(v1_interval(earlier))

\* the setTimeout callback of a completion runs
EarlierRestart ==
    /\ earlier.restarts > 0
    /\ Cardinality(earlier.intervals) < MaxIntervals
    /\ EarlierStep(v1_startTimer([earlier EXCEPT !.restarts = @ - 1]))

EarlierNext ==
    \/ EarlierToggleClick
    \/ EarlierResetClick
    \/ EarlierSettingsClick
    \/ \E in \in EarlierInputs : EarlierSaveClick(in[1], in[2])
    \/ \E h \in 1..(MaxIntervals + 1) : IntervalTick(h)
    \/ EarlierRestart

EarlierSpec == Init /\ [][EarlierNext]_vars

-----------------------------------------------------------------------------
(* The handlers of two open instances *)

\* the timer as a handler of view v finds it: the fields of v, the elements
\* of v's timerElements
ViewSelf(v) == WithElements(views[v].timer, views[timerElements(v)].timer)

\* a timer handler of view v has left s
ViewCommit(v, s) ==
    /\ views' = [u \in Views |->
                    [views[u] EXCEPT !.timer =
                        WithElements(IF u = v THEN s ELSE views[u].timer,
                                     IF u = timerElements(v) THEN s ELSE views[u].timer)]]
    /\ UNCHANGED <<timerVars, calendarVars, documentVars, taskVars, earlier, workspace>>

ViewToggleClick(v) == ViewCommit(v, toggleTimer(ViewSelf(v)))

\* the browser runs the pending frame callback h of view v
ViewFrame(v, h) ==
    /\ h \in views[v].timer.frames
    /\ ViewCommit(v, tick([ViewSelf(v) EXCEPT !.frames = @ \ {h}], TRUE))

\* the browser runs the oldest setTimeout callback of view v, once it is due
ViewRestart(v) ==
    /\ views[v].timer.restartTimers # <<>>
    /\ Head(views[v].timer.restartTimers) <= now
    /\ ViewCommit(v, startTimer([ViewSelf(v) EXCEPT !.restartTimers = Tail(@)]))

\* the user types text into the task input of view v and clicks on Add there
ViewAddClick(v, text) ==
    /\ Len(views[v].tasks) < MaxViewTasks
    /\ \E typed \in {[views EXCEPT ![v].input = text]} :
        \E t \in {addTask([tasks |-> typed[v].tasks,
                           input |-> typed[taskElements(v)].input], clock)} :
            views' = [u \in Views |->
                         [typed[u] EXCEPT
                             !.tasks = IF u = v THEN t.tasks ELSE @,
                             !.input = IF u = taskElements(v) THEN t.input ELSE @]]
    /\ UNCHANGED <<timerVars, calendarVars, documentVars, taskVars, earlier, workspace>>

\* the checkbox of the i-th task of view v
ViewToggleTask(v, i) ==
    /\ i \in DOMAIN views[v].tasks
    /\ views' = [views EXCEPT ![v].tasks = toggleTask(@, @[i].id)]
    /\ UNCHANGED <<timerVars, calendarVars, documentVars, taskVars, earlier, workspace>>

\* the delete button of the i-th task of view v
ViewDeleteTask(v, i) ==
    /\ i \in DOMAIN views[v].tasks
    /\ views' = [views EXCEPT ![v].tasks = deleteTask(@, @[i].id)]
    /\ UNCHANGED <<timerVars, calendarVars, documentVars, taskVars, earlier, workspace>>

\* the months from the month of date `from` to the month of date `to`
MonthsBetween(from, to) ==
    12 * (getFullYear(to) - getFullYear(from)) + getMonth(to) - getMonth(from)

\* click on the next-month or previous-month button of view v
ViewNavigate(v, delta) ==
    /\ \E target \in {setMonth(views[v].currentDate,
                               getMonth(views[v].currentDate) + delta)} :
        /\ MonthsBetween(today, target) \in ViewMonths
        /\ views' = [views EXCEPT ![v].currentDate = target]
    /\ UNCHANGED <<timerVars, calendarVars, documentVars, taskVars, earlier, workspace>>

\* the deadlines of the two timers
ViewDeadlines ==
    UNION {(IF views[v].timer.timerRunning /\ IsNum(views[v].timer.timerEndTime)
            THEN {views[v].timer.timerEndTime} ELSE {})
               \cup {views[v].timer.restartTimers[i] :
                        i \in DOMAIN views[v].timer.restartTimers} : v \in Views}

\* the time passes up to the next deadline, for both views, while no setTimeout
\* callback is due and no view has gone on from its first work session to the
\* break
ViewsAdvance ==
    \E t \in ViewDeadlines :
        /\ \A v \in Views :
               /\ views[v].timer.isWorkSession \/ views[v].timer.restartTimers # <<>>
               /\ \A i \in DOMAIN views[v].timer.restartTimers :
                      views[v].timer.restartTimers[i] > now
        /\ t > now
        /\ \A u \in ViewDeadlines : u > now => t <= u
        /\ views' = [v \in Views |->
                        [views[v] EXCEPT
                            !.timer.timerEndTime = Shift(@, t - now),
                            !.timer.restartTimers =
                                [i \in DOMAIN @ |-> Shift(@[i], t - now)]]]
        /\ UNCHANGED <<timerVars, calendarVars, documentVars, taskVars, earlier, workspace>>

\* a click, tick or deferred callback that belongs to view v
ViewStep(v) ==
    \/ ViewToggleClick(v)
    \/ \E h \in 1..3 : ViewFrame(v, h)
    \/ ViewRestart(v)
    \/ \E text \in ViewTexts : ViewAddClick(v, text)
    \/ \E i \in 1..MaxViewTasks : ViewToggleTask(v, i)
    \/ \E i \in 1..MaxViewTasks : ViewDeleteTask(v, i)
    \/ \E delta \in {0 - 1, 1} : ViewNavigate(v, delta)

ViewsNext ==
    \/ \E v \in Views : ViewStep(v)
    \/ ViewsAdvance

ViewsSpec == Init /\ [][ViewsNext]_vars

-----------------------------------------------------------------------------
(* The three components of one view together *)

\* click on Save with 1 and 1 in the inputs
ShortSave == SaveClick("1", "1")

\* the browser runs a pending frame callback, the tone being playable
AudibleFrame == \E h \in frames : Frame(h, TRUE)

\* Leap ms pass
LongWait == AdvanceClock(Leap)

\* click on a navigation button while no midnight passes, the calendar
\* staying within MaxAway months after the month of today
QuietNavigate(delta) ==
    \E target \in {setMonth(currentDate, getMonth(currentDate) + delta)} :
        /\ MonthsBetween(today, target) \in 0..MaxAway
        /\ Navigate(delta, DaysInMonth(getFullYear(target), getMonth(target)))

NearNavigate == \E delta \in {0 - 1, 1} : QuietNavigate(delta)

\* click on the first day cell while no call is waiting and no error is shown
FirstDayClick ==
    /\ calls = <<>>
    /\ errorMessages = {}
    /\ \E check \in Outcomes : DayClick(1, check)

\* the user types a into the task input
TypeA == TypeTask(<<"a">>)

\* click on Add with no task in the list
FirstAdd == tasks = <<>> /\ AddClick

\* the checkbox and the delete button of a task added at the opening
ToggleFirst == ToggleTask(0)
DeleteFirst == DeleteTask(0)

ComponentsNext ==
    \/ ToggleClick
    \/ ResetClick
    \/ SettingsClick
    \/ ShortSave
    \/ AudibleFrame
    \/ LongWait
    \/ NearNavigate
    \/ FirstDayClick
    \/ TypeA
    \/ FirstAdd
    \/ ToggleFirst
    \/ DeleteFirst

ComponentsSpec == Init /\ [][ComponentsNext]_vars

-----------------------------------------------------------------------------
(* The plugin's handlers and the host's steps *)

\* a click on the ribbon icon or the command 'Open Deadline': activateView
\* runs up to its await
ActivateView(by, atOnce) ==
    /\ Len(workspace.waiting) < MaxActivations
    /\ workspace.created < MaxLeaves
    /\ workspace' = activateView(workspace, by, atOnce)
    /\ UNCHANGED <<timerVars, calendarVars, documentVars, taskVars, views, earlier>>

\* the host builds the view in a leaf whose setViewState is under way
HostOpensView(leaf) ==
    /\ \E i \in DOMAIN workspace.waiting : workspace.waiting[i].leaf = leaf
    /\ leaf \in DOMAIN workspace.leaves
    /\ workspace.leaves[leaf] = "empty"
    /\ workspace' = OpenView(workspace, leaf, VIEW_TYPE)
    /\ UNCHANGED <<timerVars, calendarVars, documentVars, taskVars, views, earlier>>

\* the promise of the i-th waiting call's setViewState is fulfilled, the
\* view being built, and activateView goes on
SetViewStateSettles(i) ==
    /\ i \in DOMAIN workspace.waiting
    /\ workspace.leaves[workspace.waiting[i].leaf] = VIEW_TYPE
    /\ workspace' = activateView_Resumed(workspace, i)
    /\ UNCHANGED <<timerVars, calendarVars, documentVars, taskVars, views, earlier>>

\* the user closes a leaf that no activateView call is waiting for
DetachLeaf(leaf) ==
    /\ leaf \in DOMAIN workspace.leaves
    /\ \A i \in DOMAIN workspace.waiting : workspace.waiting[i].leaf # leaf
    /\ workspace' = [workspace EXCEPT
                        !.leaves = [l \in DOMAIN @ \ {leaf} |-> @[l]],
                        !.revealed = IF @ = leaf THEN 0 ELSE @]
    /\ UNCHANGED <<timerVars, calendarVars, documentVars, taskVars, views, earlier>>

PluginNext ==
    \/ \E by \in {"ribbon", "command"}, atOnce \in BOOLEAN : ActivateView(by, atOnce)
    \/ \E leaf \in 1..MaxLeaves : HostOpensView(leaf)
    \/ \E i \in 1..MaxActivations : SetViewStateSettles(i)
    \/ \E leaf \in 1..MaxLeaves : DetachLeaf(leaf)

PluginSpec == Init /\ [][PluginNext]_vars

-----------------------------------------------------------------------------
(* The view left alone *)

\* click on Start
StartClick == ~timerRunning /\ ToggleClick

\* The view with a user who sets the durations, starts the timer and walks
\* away, a browser that keeps running the pending callbacks, and a clock that
\* keeps going.

LiveNext ==
    \/ StartClick
    \/ SettingsClick
    \/ \E in \in InputTexts : SaveClick(in[1], in[2])
    \/ FrameStep
    \/ RestartTimeout
    \/ ClockStep
    \/ WalkAway

LiveSpec ==
    /\ Init
    /\ [][LiveNext]_vars
    /\ WF_vars(FrameStep)
    /\ WF_vars(RestartTimeout)
    /\ WF_vars(ClockStep)

-----------------------------------------------------------------------------
(* Properties *)

PhaseDuration == IF isWorkSession THEN workTime ELSE breakTime

\* the remaining seconds a tick would compute now
Remaining(endTime) == Max0(RoundSeconds(JsSub(endTime, now)))

\* a tick now would complete the phase
Due == timerRunning /\ JsLeq(Remaining(timerEndTime), 0)

\* endTime' names the instant endTime named before the step
SameInstant(endTime, endTimeNext) ==
    \/ endTimeNext = endTime
    \/ ClockStep /\ \E d \in Advances : endTimeNext = Shift(endTime, d)

\* C1: after onClose() no callback changes timerRunning, timeLeft,
\* isWorkSession or timerEndTime any more, and no recomputation is scheduled
\* again.
C1_FrozenAfterClose ==
    [][closed =>
          /\ timerRunning' = timerRunning
          /\ timeLeft' = timeLeft
          /\ isWorkSession' = isWorkSession
          /\ SameInstant(timerEndTime, timerEndTime')
          /\ frames' \subseteq frames]_vars

\* C2: at most one requestAnimationFrame callback of the timer is pending,
\* in every reachable state.
C2_AtMostOneFrame == Cardinality(frames) <= 1

C2_Witness == lastOp = "restart ignored" /\ Cardinality(frames) = 1

\* C3: once the user has started the timer and leaves it alone, the timer
\* is running a work phase infinitely often and running a break phase
\* infinitely often.
C3_AlternatesForever ==
    /\ []<>(userGone => timerRunning /\ isWorkSession)
    /\ []<>(userGone => timerRunning /\ ~isWorkSession)

\* C4: the tick that finds the phase at its end flips isWorkSession once,
\* loads the full duration of the new phase, and leaves the timer stopped
\* with no further tick pending; the phase changes in no other way than by
\* such a tick or by Reset.
C4_CompletesOnce ==
    [][/\ FrameStep /\ Due =>
            /\ isWorkSession' = ~isWorkSession
            /\ timeLeft' = (IF isWorkSession THEN breakTime ELSE workTime)
            /\ ~timerRunning'
            /\ frames' = {}
       /\ isWorkSession' # isWorkSession => (FrameStep /\ Due) \/ ResetClick]_vars

C4_Witness ==
    /\ lastOp = "complete"
    /\ ~isWorkSession
    /\ IsNum(workTime) /\ IsNum(breakTime) /\ workTime # breakTime
    /\ timeLeft = breakTime

\* C5: with numeric durations, 0 <= timeLeft <= max(workTime, breakTime) in
\* every reachable state.
C5_TimeLeftInRange ==
    IsNum(workTime) /\ IsNum(breakTime) =>
        /\ JsLeq(0, timeLeft)
        /\ JsLeq(timeLeft, IF workTime > breakTime THEN workTime ELSE breakTime)

\* C6 as stated: timerEndTime is null whenever the timer is not running, and
\* while running it is the instant start() computed.
C6_NullUnlessRunning ==
    [][/\ ~timerRunning' => timerEndTime' = Null
       /\ ~timerRunning /\ timerRunning' =>
              timerEndTime' = JsAdd(now, JsMul(timeLeft, 1000))
       /\ timerRunning /\ timerRunning' => SameInstant(timerEndTime, timerEndTime')]_vars

\* C6 as amended: timerEndTime is null until the first start(); a start()
\* sets it to the wall-clock time of the start plus timeLeft * 1000; nothing
\* else assigns it, so it names that instant while the timer runs and keeps
\* naming it after pause, reset and completion.
C6_SetOnlyByStart ==
    [][/\ timerEndTime' = Null => ~timerRunning'
       /\ ~timerRunning /\ timerRunning' =>
              timerEndTime' = JsAdd(now, JsMul(timeLeft, 1000))
       /\ ~(~timerRunning /\ timerRunning') =>
              SameInstant(timerEndTime, timerEndTime')]_vars

C6_Witness ==
    /\ lastOp = "pause"
    /\ ~timerRunning
    /\ IsNum(timerEndTime)
    /\ timerEndTime # JsAdd(now, JsMul(timeLeft, 1000))

\* C7: start() while the timer is running changes nothing: a deferred
\* auto-restart that finds the timer running leaves every field, the pending
\* frames and the display as they are.
C7_StartWhileRunning ==
    [][/\ timerRunning => startTimer(Self) = Self
       /\ RestartTimeout /\ timerRunning =>
              UNCHANGED <<workTime, breakTime, timeLeft, isWorkSession, timerRunning,
                          timerEndTime, timerAnimationFrame, frames, startBtnText,
                          timeText, statusText, progressWidth, progressBackground>>]_vars

C7_Witness ==
    /\ lastOp = "restart ignored"
    /\ timerRunning
    /\ IsNum(timeLeft) /\ IsNum(PhaseDuration) /\ timeLeft < PhaseDuration

\* C8: a pause while running cancels the pending tick and keeps timeLeft and
\* the phase as last computed; pauseTimer() while not running changes
\* nothing.
C8_Pause ==
    [][/\ ToggleClick /\ timerRunning =>
            /\ ~timerRunning'
            /\ frames' = {}
            /\ timeLeft' = timeLeft
            /\ isWorkSession' = isWorkSession
       /\ ~timerRunning => pauseTimer(Self) = Self]_vars

C8_Witness ==
    /\ lastOp = "pause"
    /\ frames = {}
    /\ IsNum(timeLeft)
    /\ timeLeft # Remaining(timerEndTime)

\* C9: a pause followed by a start, with any amount of time but no other
\* timer operation in between, resumes from timeLeft as it was at the pause:
\* the new timerEndTime is the restart time plus timeLeft * 1000 and the
\* remaining time computed from it is that timeLeft.
C9_PauseThenStart ==
    [][/\ lastOp = "pause" /\ lastOp' = "pause" => timeLeft' = timeLeft
       /\ lastOp = "pause" /\ lastOp' = "start" =>
            /\ timerRunning'
            /\ timeLeft' = timeLeft
            /\ timerEndTime' = JsAdd(now, JsMul(timeLeft, 1000))
            /\ Remaining(timerEndTime') = timeLeft]_vars

C9_Witness ==
    /\ lastOp = "start"
    /\ pauseAge = "long"
    /\ IsNum(timeLeft) /\ IsNum(PhaseDuration) /\ timeLeft < PhaseDuration
    /\ timerEndTime = timeLeft * 1000

\* C10: right after Reset the timer is not running, no tick is pending, the
\* phase is work, timeLeft is workTime and the progress bar is at 0%.
C10_AfterReset ==
    lastOp = "reset" =>
        /\ ~timerRunning
        /\ frames = {}
        /\ isWorkSession
        /\ timeLeft = workTime
        /\ progressWidth = <<0, 1>>

C10_Witness ==
    /\ lastOp = "reset"
    /\ restartTimers # <<>>
    /\ statusText = <<"Ready">>

\* C11: when the tone cannot be played at a phase completion, the failure is
\* logged and goes no further: the phase is flipped, timeLeft is the new
\* phase's duration and the 2-second restart is scheduled; no handler is
\* ever left by an exception of playBeepSound.
C11_CueNeverBlocks ==
    [][/\ cue' # "thrown"
       /\ FrameStep /\ Due =>
            /\ cue' \in {"tone", "logged"}
            /\ cue' = "logged" =>
                  /\ isWorkSession' = ~isWorkSession
                  /\ timeLeft' = (IF isWorkSession THEN breakTime ELSE workTime)
                  /\ restartTimers' = Append(restartTimers, now + 2000)]_vars

C11_Witness ==
    /\ cue = "logged"
    /\ lastOp = "complete"
    /\ ~isWorkSession
    /\ timeLeft = breakTime
    /\ restartTimers = <<now + 2000>>

C13_SaveWhileRunning ==
    [][\A in \in InputTexts :
          SaveClick(in[1], in[2]) /\ timerRunning =>
              /\ workTime' = JsMul(parseInt(in[1]), 60)
              /\ breakTime' = JsMul(parseInt(in[2]), 60)
              /\ UNCHANGED <<timeLeft, timerEndTime, isWorkSession, timerRunning,
                             timerAnimationFrame, frames, restartTimers,
                             timeText, progressWidth>>]_vars

C13_Witness ==
    /\ lastOp = "save"
    /\ timerRunning
    /\ workTime = 60
    /\ timeLeft > 60
    /\ timerEndTime > 60 * 1000

\* C14: after every Save the stored durations are whole minutes within the
\* limits of the inputs: workTime in 60..10800, breakTime in 60..3600.
C14_DurationsInRange ==
    /\ workTime \in {60 * m : m \in 1..180}
    /\ breakTime \in {60 * m : m \in 1..60}

\* C15: a tick of a running phase that does not complete it sets timeLeft to
\* max(0, round((timerEndTime - t) / 1000)) for the time t of the tick, and
\* no tick moves timerEndTime: timeLeft after a tick is a function of
\* timerEndTime and t alone.
C15_DriftFree ==
    [][FrameStep /\ timerRunning =>
          /\ timerEndTime' = timerEndTime
          /\ ~Due => /\ timerRunning'
                     /\ timeLeft' = Remaining(timerEndTime)
                     /\ IsNum(timerEndTime) =>
                            timeLeft' = (timerEndTime - now + 500) \div 1000]_vars

C15_Witness ==
    /\ lastOp = "tick"
    /\ timerRunning
    /\ IsNum(timeLeft) /\ IsNum(PhaseDuration)
    /\ PhaseDuration - timeLeft >= 58
    /\ timerEndTime = timeLeft * 1000

\* the (year, month) of the calendar's title
Displayed(cal) == <<cal.year, cal.month>>

\* the month after / before (year, month)
MonthAfter(ym) == IF ym[2] = 11 THEN <<ym[1] + 1, 0>> ELSE <<ym[1], ym[2] + 1>>
MonthBefore(ym) == IF ym[2] = 0 THEN <<ym[1] - 1, 11>> ELSE <<ym[1], ym[2] - 1>>

\* the number a sequence of decimal digits stands for
RECURSIVE Decimal(_)
Decimal(digits) ==
    IF digits = <<>> THEN 0
    ELSE 10 * Decimal(SubSeq(digits, 1, Len(digits) - 1)) + digits[Len(digits)]

\* the day cells marked as today
MarkedToday(cal) == {d \in DOMAIN cal.days : cal.days[d].today}

\* C16: a click on next-month followed by a click on previous-month shows
\* the (year, month) that was displayed before the two clicks.
C16_NextThenPrev ==
    [][lastNav = "next" /\ PrevClick => Displayed(calendar') = navFrom]_vars

\* C17: a next-month click shows the month after the displayed one and a
\* previous-month click the month before it, the month staying in 0..11 and
\* the year moving at the December / January boundary.
C17_OneMonthPerClick ==
    [][/\ NextClick => Displayed(calendar') = MonthAfter(Displayed(calendar))
       /\ PrevClick => Displayed(calendar') = MonthBefore(Displayed(calendar))
       /\ calendar'.month \in 0..11]_vars

\* C18: the rendered grid has (weekday of the 1st + 6) % 7 empty cells, then
\* one cell per day of the month numbered 1..daysInMonth in order, each
\* carrying YYYY-MM-DD of its day with two-digit month and day, so that every
\* day stands in the column of its Monday-first weekday.
C18_Grid ==
    LET y == calendar.year
        m == calendar.month
    IN  /\ calendar.blanks = (getDay(<<y, m, 1>>) + 6) % 7
        /\ DOMAIN calendar.days = 1..DaysInMonth(y, m)
        /\ \A d \in DOMAIN calendar.days :
              /\ calendar.days[d].day = d
              /\ Len(calendar.days[d].date[1]) = 4
              /\ Len(calendar.days[d].date[2]) = 2
              /\ Len(calendar.days[d].date[3]) = 2
              /\ Decimal(calendar.days[d].date[1]) = y
              /\ Decimal(calendar.days[d].date[2]) = m + 1
              /\ Decimal(calendar.days[d].date[3]) = d
              /\ (calendar.blanks + d - 1) % 7 = (getDay(<<y, m, d>>) + 6) % 7

C18_Witness ==
    /\ lastNav = "next"
    /\ calendar.blanks = 6
    /\ calendar.month = 8
    /\ Len(calendar.days) = 30
    /\ calendar.days[1].date = <<Digits(calendar.year), <<0, 9>>, <<0, 1>>>>

\* C19: a render during which the local date lies in the displayed month
\* marks exactly one day cell as today, and a render during which it lies
\* outside marks none, wherever midnight falls during the render.
C19_OneTodayCell ==
    [][PrevClick \/ NextClick =>
          LET shown == Displayed(calendar')
              before == <<today[1], today[2]>> = shown
              after == <<today'[1], today'[2]>> = shown
          IN  /\ before /\ after => Cardinality(MarkedToday(calendar')) = 1
              /\ ~before /\ ~after => MarkedToday(calendar') = {}]_vars

\* C20: a click on a date whose document exists or is being created never
\* ends in an error message about the name being taken.
C20_CollisionOpens ==
    \A e \in errorMessages : e[2] # AlreadyExists

\* C21: every failure of a call to the vault or the workspace made for a day
\* click (the lookup, the creation, the opening) is caught and adds an error
\* message with the failure's message, and no error message is ever removed.
C21_FailuresShown ==
    [][/\ errorMessages \subseteq errorMessages'
       /\ \A day \in ClickDays :
              DayClick(day, "fail") =>
                  <<FileName(calendar.days[day].date), "lookup failed">> \in errorMessages'
       /\ \A i \in DOMAIN calls :
              /\ CreateSettles(i, "fail") =>
                     \E e \in errorMessages' :
                         /\ e[1] = calls[i].name
                         /\ e[2] \in {"create failed", AlreadyExists}
              /\ OpenSettles(i, "fail") =>
                     <<calls[i].name, "open failed">> \in errorMessages']_vars

\* the three kinds of failure have happened and their messages are all shown
C21_Witness ==
    \A message \in {"lookup failed", "create failed", "open failed"} :
        \E e \in errorMessages : e[2] = message

\* C22: the call that has created a document ends with the success message
\* shown, and a success message is shown by nothing but the opening of a
\* document that the same call created.
C22_SuccessAfterCreate ==
    [][/\ \A i \in DOMAIN calls :
              calls[i].await = "open new" /\ calls' = Finished(i) =>
                  successMessages' = Append(successMessages, calls[i].name)
       /\ Len(successMessages') > Len(successMessages) =>
              \E i \in DOMAIN calls :
                  calls[i].await = "open new" /\ OpenSettles(i, "ok")]_vars

\* a sequence of n spaces
RECURSIVE Spaces(_)
Spaces(n) == IF n = 0 THEN <<>> ELSE <<" ">> \o Spaces(n - 1)

\* text is what is left of value without its leading and trailing whitespace
Trimmed(value, text) ==
    /\ text = <<>> \/ (text[1] # " " /\ text[Len(text)] # " ")
    /\ \E a, b \in 0..Len(value) : value = Spaces(a) \o text \o Spaces(b)

\* the first position of a task with the id in the list; 0 if there is none
FirstWith(list, taskId) ==
    IF \E i \in DOMAIN list : list[i].id = taskId
    THEN CHOOSE i \in DOMAIN list :
             /\ list[i].id = taskId
             /\ \A j \in 1..(i - 1) : list[j].id # taskId
    ELSE 0

\* the list without its entry at position i
Without(list, i) == SubSeq(list, 1, i - 1) \o SubSeq(list, i + 1, Len(list))

\* C23: adding with an input that is empty or only whitespace leaves the task
\* list as it is; any other input appends exactly one task, with the trimmed
\* text and completed = false, at the end of the list; and every task of the
\* list has a non-empty text.
C23_AddAppends ==
    [][/\ AddClick =>
              IF Trimmed(taskInput, <<>>) THEN tasks' = tasks
              ELSE /\ Len(tasks') = Len(tasks) + 1
                   /\ SubSeq(tasks', 1, Len(tasks)) = tasks
                   /\ Trimmed(taskInput, tasks'[Len(tasks')].text)
                   /\ tasks'[Len(tasks')].completed = FALSE
       /\ \A i \in DOMAIN tasks' : tasks'[i].text # <<>>]_vars

\* a task whose text was typed with whitespace around and inside it
C23_Witness ==
    /\ tasks # <<>>
    /\ tasks[Len(tasks)].text = <<"a", " ", "b">>
    /\ taskInput = <<>>

\* C24: toggling an id flips completed of the first task with that id and of
\* no other task, an id that no task has changes nothing, and toggling the
\* same id again gives the list back.
C24_ToggleFirst ==
    [][\A taskId \in TaskIds :
          ToggleTask(taskId) =>
              LET first == FirstWith(tasks, taskId)
              IN  /\ IF first = 0 THEN tasks' = tasks
                     ELSE tasks' = [tasks EXCEPT ![first].completed = ~@]
                  /\ toggleTask(tasks', taskId) = tasks]_vars

\* two tasks with the same id, the first of them toggled
C24_Witness ==
    \E i, j \in DOMAIN tasks :
        /\ i < j
        /\ tasks[i].id = tasks[j].id
        /\ tasks[i].completed
        /\ ~tasks[j].completed

\* C25: deleting an id removes exactly one entry, the first task with that
\* id, and nothing when no task has it; the other tasks keep their order and
\* fields.
C25_DeleteOne ==
    [][\A taskId \in TaskIds :
          DeleteTask(taskId) =>
              LET first == FirstWith(tasks, taskId)
              IN  IF first = 0 THEN tasks' = tasks
                  ELSE tasks' = Without(tasks, first)]_vars

\* C26: the ids of the tasks of the list are pairwise distinct.
C26_DistinctIds ==
    \A i, j \in DOMAIN tasks : i # j => tasks[i].id # tasks[j].id

\* C30: in the setInterval variant at most one interval is active, and none
\* while the timer is paused, so that timeLeft goes down by one per period
\* while running and stays while paused.
C30_OneInterval ==
    /\ Cardinality(earlier.intervals) <= 1
    /\ ~earlier.timerRunning => earlier.intervals = {}

\* C28: a click, a tick or a deferred callback that belongs to one of two open
\* views leaves the other view's timer fields, task list, task input, calendar
\* cursor and elements as they are.
C28_ViewsIndependent ==
    [][\A v \in Views :
          (\A u \in Views \ {v} : views'[u] = views[u]) \/ ~ViewStep(v)]_vars

\* one view counting down with a task added and its calendar moved, the other
\* between the completion of its work session and the restart
C28_Witness ==
    \E v, u \in Views :
        /\ views[v].timer.timerRunning
        /\ views[v].timer.isWorkSession
        /\ views[v].tasks # <<>>
        /\ views[v].currentDate # views[u].currentDate
        /\ ~views[u].timer.timerRunning
        /\ views[u].timer.restartTimers # <<>>
        /\ views[u].tasks = <<>>

\* seconds / 60, as JavaScript computes it on a whole number of minutes
Minutes(seconds) == IF IsNum(seconds) THEN seconds \div 60 ELSE NaN

\* the text of a number in a template literal
NumberText(n) ==
    CASE n = NaN -> "NaN"
      [] n = 0   -> "0"
      [] n = 1   -> "1"
      [] n = 2   -> "2"
      [] n = 5   -> "5"
      [] n = 40  -> "40"
      [] OTHER   -> "?"

\* C29: while the settings panel is closed the info line shows the saved
\* durations, workTime / 60 and breakTime / 60.
C29_InfoShowsSaved ==
    settingsDisplay = "none" =>
        infoText = <<NumberText(Minutes(workTime)), NumberText(Minutes(breakTime))>>

\* the operations of the timer, of the tasks and of the calendar
TimerOperation ==
    ToggleClick \/ ResetClick \/ SettingsClick \/ ShortSave \/ AudibleFrame

TaskOperation == TypeA \/ FirstAdd \/ ToggleFirst \/ DeleteFirst

CalendarOperation == NearNavigate \/ FirstDayClick

\* C27: an operation of the timer leaves the task list and the calendar's
\* cursor unchanged, an operation of the tasks leaves the timer and the
\* cursor unchanged, and navigation and day clicks leave the timer and the
\* task list unchanged.
C27_ComponentsIndependent ==
    [][/\ TimerOperation => UNCHANGED <<tasks, currentDate>>
       /\ TaskOperation => UNCHANGED <<view, currentDate>>
       /\ CalendarOperation => UNCHANGED <<view, tasks>>]_vars

\* the work session has completed with a task in the list, the calendar on
\* another month and an error of a day click shown
C27_Witness ==
    /\ lastOp = "complete"
    /\ tasks # <<>>
    /\ tasks[1].completed
    /\ MonthsBetween(today, currentDate) = 1
    /\ errorMessages # {}

\* C31: once the user has paused or reset the timer, it stays stopped until
\* the user starts it again: the step that sets timerRunning after a Pause
\* or Reset click is a click on Start, never the restart that an earlier
\* completion deferred by 2 s.
C31_StoppedUntilUserStart ==
    [][(lastOp \in {"pause", "reset"} /\ ~timerRunning /\ timerRunning')
            => (lastOp' = "start")]_vars

\* C32: a phase is never completed early: the tick that completes the phase
\* runs when the clock has reached timerEndTime (now >= timerEndTime).
C32_NeverEarly ==
    [][(timerRunning /\ ~timerRunning' /\ lastOp' = "complete")
            => JsLeq(timerEndTime, now)]_vars

\* C33: while the view is open, the timer is running exactly when a
\* recomputation is scheduled: a running timer has a pending tick, and a
\* timer that is not running has none.
C33_RunningIffScheduled == ~closed => (timerRunning <=> frames # {})

C33_Witness ==
    /\ lastOp = "restart"
    /\ ~closed
    /\ timerRunning
    /\ ~isWorkSession
    /\ frames = {timerAnimationFrame}

\* C34: after every handler the rendered time is timeLeft as minutes and
\* seconds, and the rendered progress width is
\* (phaseDuration - timeLeft) / phaseDuration of the current phase (stated
\* for numeric durations).
C34_RenderedIsCurrent ==
    IsNum(workTime) /\ IsNum(breakTime) /\ IsNum(timeLeft) /\ ~closed =>
        /\ timeText = <<timeLeft \div 60, timeLeft % 60>>
        /\ progressWidth = Fraction(PhaseDuration - timeLeft, PhaseDuration)

\* C35: at a phase completion the status message names the phase that has
\* just finished: "Work Session Complete!" when a work phase ended, "Break
\* Session Complete!" when a break ended.
C35_NamesFinishedPhase ==
    [][(timerRunning /\ ~timerRunning' /\ lastOp' = "complete")
            => (statusText' = <<IF isWorkSession THEN "Work" ELSE "Break",
                                "Session Complete!">>)]_vars

\* C36: for any interleaving of activations, also when one starts before the
\* setViewState of another has completed, at most one new leaf is requested:
\* the workspace never holds two leaves that activateView asked for.
C36_OneLeaf == Cardinality(DOMAIN workspace.leaves) <= 1

=============================================================================
